---- MODULE Spec2Model ----
(***************************************************************************)
(* Model of gbcdk.py (class GbconnectedDk): the three batch operations     *)
(* version_check, query_local and query_rds, each of which fans one        *)
(* per-target function out over a ThreadPoolExecutor and collects the      *)
(* results in roster order.                                                *)
(*                                                                         *)
(* A behaviour is one session of the tool: the operator drives one of the  *)
(* three batch methods (op) over the roster its yaml file holds, up to     *)
(* MaxBatches times, one call after the other.                             *)
(*                                                                         *)
(* Environment: a remote call (HTTP GET/POST, SQL query) returns or        *)
(* raises, chosen at the step that makes it.  The local file system works: *)
(* a write fails only when its path cannot be built from the roster entry  *)
(* (planta[1] of an entry that has no label raises IndexError).  The       *)
(* calendar day does not change during a session, so str(date.today())     *)
(* names one file, `artifact`.  An append in mode 'a' is one write of the  *)
(* row, issued when the file object is closed.                             *)
(***************************************************************************)
EXTENDS Naturals, Sequences, FiniteSets, TLC

\* ---------------------------------------------------------------- bounds
\* Largest roster of version_check (number of targets in plantas.yaml).
MaxRoster == 3
\* Largest roster of query_local and query_rds.
MaxSqlRoster == 2
\* Number of batch calls in one session.
MaxBatches == 2
\* Number of query_local calls in one session.
MaxLocalBatches == 1
\* ThreadPoolExecutor(max_workers=10) in the source.  The executor's
\* scheduling does not depend on the number; the model runs it with a pool
\* scaled down so that rosters larger than the pool stay checkable.
max_workers == 2

\* ------------------------------------------------------------ the rosters
IPs == <<"10.0.0.1", "10.0.0.2", "10.0.0.3", "10.0.0.4", "10.0.0.5">>
Labels == {"A", "B"}
SchemaNames == {"siteA", "siteB", "error_siteA"}

\* plantas.yaml: an entry is the list [ip, label]; the label may be missing.
\* version_check uses the label only as the second field of an ERROR row, so
\* its rosters draw it from one value; query_local names its files by it.
PlantEntries(o, i) ==
    {<<IPs[i]>>} \cup
    {<<IPs[i], l>> : l \in IF o = "version_check" THEN {"A"} ELSE Labels}

\* Rosters that differ only by renaming the labels behave alike: the first
\* label a roster uses is "A".
FirstLabelIsA(r) ==
    \A i \in DOMAIN r :
        (Len(r[i]) = 2 /\ r[i][2] = "B") =>
            \E j \in 1..(i - 1) : Len(r[j]) = 2 /\ r[j][2] = "A"

PlantRosters(o) ==
    UNION {{r \in [1..len -> UNION {PlantEntries(o, i) : i \in 1..len}] :
              (\A i \in 1..len : r[i] \in PlantEntries(o, i)) /\ FirstLabelIsA(r)} :
           len \in 1..(IF o = "version_check" THEN MaxRoster ELSE MaxSqlRoster)}

\* rds_plantas.yaml: an entry is the schema name of the plant.
RdsRosters ==
    UNION {{r \in [1..len -> SchemaNames] :
              \A i, j \in 1..len : i # j => r[i] # r[j]} :
           len \in 1..MaxSqlRoster}

Ops == {"version_check", "query_local", "query_rds"}

\* The query argument of query_local(query) and query_rds(query);
\* version_check takes none.
Queries == {"SELECT 1", "SELECT version FROM info"}
QueriesOf(o) ==
    IF o = "query_rds" THEN Queries
    ELSE IF o = "query_local" THEN {"SELECT 1"} ELSE {""}

\* _read_yaml_file: the flattened list of the entries of the yaml file.
_read_yaml_file(o) == IF o = "query_rds" THEN RdsRosters ELSE PlantRosters(o)

\* ------------------------------------------------------------------ state
VARIABLES
    op,         \* the batch method this session drives
    all_data,   \* the roster read from the yaml file
    query,      \* the SQL text handed to query_local / query_rds
    batch,      \* number of batch calls made so far
    main,       \* position of the calling thread
    exc,        \* an exception is propagating out of the with block
    submitted,  \* number of futures created by executor.map
    n,          \* tqdm's completed count
    pc,         \* position of each target's work item
    sql,        \* the SQL statements each work item has sent to a database, in order
    session,    \* _get_version: outcome of _prepare_session for the target
    data,       \* _get_version: soup.find_all('b') of the diagnostics page
    text,       \* _get_version / _write_data: the row to append
    q1,         \* _get_query_local: outcome of the query under the primary credentials
    q2,         \* _get_query_local: outcome of the query under the secondary credentials
    n2,         \* _get_query_local: queries issued under the secondary credentials
    wrote,      \* paths each work item has written in this batch
    artifact,   \* <date>.csv: the sequence of its rows
    Local,      \* directory Local/
    Historico   \* directory Historico/

vars == <<op, all_data, query, batch, main, exc, submitted, n, pc, sql,
          session, data, text, q1, q2, n2, wrote, artifact, Local, Historico>>

Targets == 1..Len(all_data)

\* ------------------------------------------------------------------ files
header == <<"version", "planta", "ip">>
NoText == <<>>

LocalPath(label) == "Local/" \o label \o ".csv"
ResultPath(planta) == "Historico/" \o planta \o ".csv"
ErrorPath(planta) == "Historico/error_" \o planta \o ".csv"

LocalPaths == {LocalPath(l) : l \in Labels}
HistoricoPaths == {ResultPath(t) : t \in SchemaNames} \cup {ErrorPath(t) : t \in SchemaNames}

\* A file of a directory: whose result it holds, the batch call that wrote it
\* and its table.
NoFile == [of |-> "", run |-> 0, data |-> <<>>]
File(of, run, table) == [of |-> of, run |-> run, data |-> table]

\* Mutant of _create_doc: the file is opened in mode 'a' instead of 'w'.
_create_doc_append(run) == Append(artifact, [row |-> header, run |-> run])

\* _create_doc: open(..., 'w') truncates the day's file and writes the header.
_create_doc(run) == <<[row |-> header, run |-> run]>>

\* Python's s[a:-b] for a string s.
Slice(s, a, b) == IF a + 1 > Len(s) - b THEN "" ELSE SubSeq(s, a + 1, Len(s) - b)

\* The diagnostics page, given by the <b> elements soup.find_all('b') finds
\* in it (str of each): the known shape, a page with only two <b> elements
\* and a page with none.
KnownPage ==
    <<"<b>GBConnected</b>",
      "<b>Planta: PLANTA </b>",
      "<b>Version instalada del GBConnected: 2.4.1 </b>">>
Pages == {KnownPage, SubSeq(KnownPage, 1, 2), <<>>}
find_all_b(page) == page

\* planta = str(data[1]); version = str(data[2]);
\* text = [version[38:-5], planta[11:-5], ip[0]]
VersionRow(ip, d) == <<Slice(d[3], 38, 5), Slice(d[2], 11, 5), ip[1]>>

\* Mutant of Statement: a blank separates the schema prefix from the query.
Statement_spaced(planta, q) == ("SET search_path TO " \o planta \o "; ") \o q

\* schema = f"SET search_path TO {planta};"; the statement is schema+query.
Statement(planta, q) == ("SET search_path TO " \o planta \o ";") \o q

\* text = 'ERROR', ip[1], ip[0]
ErrorRow(ip) == <<"ERROR", ip[2], ip[1]>>

Terminal == {"done", "raised", "cancelled"}
Waiting == {"unsubmitted", "pending"}
Running(i) == pc[i] \notin Terminal \cup Waiting

\* -------------------------------------------------------------------- Init
Init ==
    /\ op \in Ops
    /\ all_data \in _read_yaml_file(op)
    /\ query \in QueriesOf(op)
    /\ batch = 0
    /\ main = "idle"
    /\ exc = FALSE
    /\ submitted = 0
    /\ n = 0
    /\ pc = [i \in 1..Len(all_data) |-> "unsubmitted"]
    /\ sql = [i \in 1..Len(all_data) |-> <<>>]
    /\ session = [i \in 1..Len(all_data) |-> "none"]
    /\ data = [i \in 1..Len(all_data) |-> <<>>]
    /\ text = [i \in 1..Len(all_data) |-> NoText]
    /\ q1 = [i \in 1..Len(all_data) |-> "none"]
    /\ q2 = [i \in 1..Len(all_data) |-> "none"]
    /\ n2 = [i \in 1..Len(all_data) |-> 0]
    /\ wrote = [i \in 1..Len(all_data) |-> {}]
    /\ artifact = <<>>
    /\ Local = [p \in LocalPaths |-> NoFile]
    /\ Historico = [p \in HistoricoPaths |-> NoFile]

\* ------------------------------------------------- the calling thread

\* What every batch method does on entry: the yaml file is read and the
\* executor is created; the work items of the previous call are gone.
EnterBatch ==
    /\ main \in {"idle", "returned", "raised"}
    /\ batch < (IF op = "query_local" THEN MaxLocalBatches ELSE MaxBatches)
    /\ batch' = batch + 1
    /\ main' = "map"
    /\ exc' = FALSE
    /\ submitted' = 0
    /\ n' = 0
    /\ pc' = [i \in Targets |-> "unsubmitted"]
    /\ sql' = [i \in Targets |-> <<>>]
    /\ session' = [i \in Targets |-> "none"]
    /\ data' = [i \in Targets |-> <<>>]
    /\ text' = [i \in Targets |-> NoText]
    /\ q1' = [i \in Targets |-> "none"]
    /\ q2' = [i \in Targets |-> "none"]
    /\ n2' = [i \in Targets |-> 0]
    /\ wrote' = [i \in Targets |-> {}]
    /\ UNCHANGED <<op, all_data, query>>

version_check ==
    /\ op = "version_check"
    /\ EnterBatch
    /\ artifact' = _create_doc(batch + 1)
    /\ UNCHANGED <<Local, Historico>>

query_local ==
    /\ op = "query_local"
    /\ EnterBatch
    /\ UNCHANGED <<artifact, Local, Historico>>

query_rds ==
    /\ op = "query_rds"
    /\ EnterBatch
    /\ UNCHANGED <<artifact, Local, Historico>>

\* executor.map: one future per roster entry, created in roster order before
\* the first result is asked for.
map_submit ==
    /\ main = "map"
    /\ submitted < Len(all_data)
    /\ submitted' = submitted + 1
    /\ pc' = [pc EXCEPT ![submitted + 1] = "pending"]
    /\ main' = IF submitted + 1 = Len(all_data) THEN "results" ELSE "map"
    /\ UNCHANGED <<op, all_data, query, sql, session, data, q2, batch, exc, n, text, q1, n2, wrote,
                   artifact, Local, Historico>>

\* tqdm(..., total=len(all_data)): the total the progress bar shows.
total == Len(all_data)

\* Mutant of result_next: the bar is advanced without waiting for the result.
result_next_eager ==
    /\ main = "results"
    /\ n < Len(all_data)
    /\ n' = n + 1
    /\ main' = IF n + 1 = Len(all_data) THEN "exit" ELSE "results"
    /\ UNCHANGED <<op, all_data, query, sql, session, data, q2, batch, exc, submitted, pc, text, q1, n2,
                   wrote, artifact, Local, Historico>>

\* list(tqdm(executor.map(...))): the results are taken in roster order; tqdm
\* counts each one.  A work item that raised re-raises here, and the map
\* iterator cancels the futures that have not started.
result_next ==
    /\ main = "results"
    /\ n < Len(all_data)
    /\ pc[n + 1] = "done"
    /\ n' = n + 1
    /\ main' = IF n + 1 = Len(all_data) THEN "exit" ELSE "results"
    /\ UNCHANGED <<op, all_data, query, sql, session, data, q2, batch, exc, submitted, pc, text, q1, n2,
                   wrote, artifact, Local, Historico>>

result_raise ==
    /\ main = "results"
    /\ n < Len(all_data)
    /\ pc[n + 1] = "raised"
    /\ pc' = [i \in Targets |-> IF pc[i] = "pending" THEN "cancelled" ELSE pc[i]]
    /\ exc' = TRUE
    /\ main' = "exit"
    /\ UNCHANGED <<op, all_data, query, sql, session, data, q2, batch, submitted, n, text, q1, n2, wrote,
                   artifact, Local, Historico>>

\* Leaving the with block: shutdown(wait=True) joins the workers, then the
\* method prints 'Archivo generado' and returns, or the exception leaves it.
executor_exit ==
    /\ main = "exit"
    /\ \A i \in Targets : pc[i] \in Terminal
    /\ main' = IF exc THEN "raised" ELSE "returned"
    /\ UNCHANGED <<op, all_data, query, sql, session, data, q2, batch, exc, submitted, n, pc, text, q1, n2,
                   wrote, artifact, Local, Historico>>

\* ------------------------------------------------------------ the workers

FirstPc == [version_check |-> "csrf_get", query_local |-> "sql_primary",
            query_rds |-> "rds_sql"]

\* Mutant of PoolHasRoom: one thread per submitted work item.
PoolUnbounded == TRUE

\* A worker thread takes the oldest work item of the queue; the executor
\* never has more than max_workers threads.
PoolHasRoom == Cardinality({j \in Targets : Running(j)}) < max_workers

worker_start(i) ==
    /\ pc[i] = "pending"
    /\ \A j \in 1..(i - 1) : pc[j] # "pending"
    /\ PoolHasRoom
    /\ pc' = [pc EXCEPT ![i] = FirstPc[op]]
    /\ UNCHANGED <<op, all_data, query, sql, session, data, q2, batch, main, exc, submitted, n, text, q1, n2,
                   wrote, artifact, Local, Historico>>

\* ---- _get_version (with _prepare_session and _write_data)

\* Mutant of get_version_except: the handler swallows the error (pass).
get_version_except_swallow(i) ==
    /\ pc' = [pc EXCEPT ![i] = "done"]
    /\ UNCHANGED text

\* except Exception: text = 'ERROR', ip[1], ip[0]; then _write_data(text).
\* ip[1] of an entry without label raises IndexError out of the handler.
get_version_except(i) ==
    IF Len(all_data[i]) >= 2
    THEN /\ text' = [text EXCEPT ![i] = ErrorRow(all_data[i])]
         /\ pc' = [pc EXCEPT ![i] = "write_open"]
    ELSE /\ pc' = [pc EXCEPT ![i] = "raised"]
         /\ UNCHANGED text

\* Mutant of prepare_session_get: the login POST is skipped.
prepare_session_get_skip(i) ==
    /\ pc[i] = "csrf_get"
    /\ \E r \in {"ok", "raise"} :
         IF r = "ok"
         THEN pc' = [pc EXCEPT ![i] = "diag_get"] /\ UNCHANGED <<text, session>>
         ELSE get_version_except(i) /\ session' = [session EXCEPT ![i] = "raised"]
    /\ UNCHANGED <<op, all_data, query, sql, data, q2, batch, main, exc, submitted, n, q1, n2,
                   wrote, artifact, Local, Historico>>

\* _prepare_session: csrf_token = s.get(url).cookies['XSRF-TOKEN']
prepare_session_get(i) ==
    /\ pc[i] = "csrf_get"
    /\ \E r \in {"ok", "raise"} :
         IF r = "ok"
         THEN pc' = [pc EXCEPT ![i] = "login_post"] /\ UNCHANGED <<text, session>>
         ELSE get_version_except(i) /\ session' = [session EXCEPT ![i] = "raised"]
    /\ UNCHANGED <<op, all_data, query, sql, data, q2, batch, main, exc, submitted, n, q1, n2,
                   wrote, artifact, Local, Historico>>

\* _prepare_session: s.post(f'{url}login', data=login_payload)
prepare_session_post(i) ==
    /\ pc[i] = "login_post"
    /\ \E r \in {"ok", "raise"} :
         IF r = "ok"
         THEN /\ pc' = [pc EXCEPT ![i] = "diag_get"]
              /\ session' = [session EXCEPT ![i] = "open"]
              /\ UNCHANGED text
         ELSE get_version_except(i) /\ session' = [session EXCEPT ![i] = "raised"]
    /\ UNCHANGED <<op, all_data, query, sql, data, q2, batch, main, exc, submitted, n, q1, n2,
                   wrote, artifact, Local, Historico>>

\* s.get(private/configuracionfabrica), find_all('b'), data[1], data[2] and
\* the slices: markup of the known shape gives the row, markup without the
\* <b> elements raises IndexError, the GET itself may raise.
get_version_fetch(i) ==
    /\ pc[i] = "diag_get"
    /\ \/ \E page \in Pages :
            /\ data' = [data EXCEPT ![i] = find_all_b(page)]
            /\ IF Len(find_all_b(page)) >= 3
               THEN /\ text' = [text EXCEPT ![i] = VersionRow(all_data[i], find_all_b(page))]
                    /\ pc' = [pc EXCEPT ![i] = "write_open"]
               ELSE get_version_except(i)
       \/ get_version_except(i) /\ UNCHANGED data
    /\ UNCHANGED <<op, all_data, query, sql, session, q2, batch, main, exc, submitted, n, q1, n2,
                   wrote, artifact, Local, Historico>>

\* _write_data: open(str(date.today()) + '.csv', 'a', newline='')
write_data_open(i) ==
    /\ pc[i] = "write_open"
    /\ pc' = [pc EXCEPT ![i] = "write_row"]
    /\ UNCHANGED <<op, all_data, query, sql, session, data, q2, batch, main, exc, submitted, n, text, q1, n2,
                   wrote, artifact, Local, Historico>>

\* Mutant of write_data_row: the file is opened in mode 'w' instead of 'a'.
write_data_row_truncate(i) ==
    /\ pc[i] = "write_row"
    /\ artifact' = <<[row |-> text[i], run |-> batch]>>
    /\ pc' = [pc EXCEPT ![i] = "done"]
    /\ data' = [data EXCEPT ![i] = <<>>]
    /\ UNCHANGED <<op, all_data, query, sql, session, q2, batch, main, exc, submitted, n, text, q1, n2,
                   wrote, Local, Historico>>

\* _write_data: writerow(text) and the close that ends the with block;
\* _get_version returns and its page goes out of scope.
write_data_row(i) ==
    /\ pc[i] = "write_row"
    /\ artifact' = Append(artifact, [row |-> text[i], run |-> batch])
    /\ pc' = [pc EXCEPT ![i] = "done"]
    /\ data' = [data EXCEPT ![i] = <<>>]
    /\ UNCHANGED <<op, all_data, query, sql, session, q2, batch, main, exc, submitted, n, text, q1, n2,
                   wrote, Local, Historico>>

\* ---- _get_query_local

\* result_df = pd.read_sql(query, con=engine)
sql_primary(i) ==
    /\ pc[i] = "sql_primary"
    /\ sql' = [sql EXCEPT ![i] = Append(@, "primary: " \o query)]
    /\ \E r \in {"ok", "fail"} :
         /\ q1' = [q1 EXCEPT ![i] = r]
         /\ pc' = [pc EXCEPT ![i] = IF r = "ok" THEN "csv_primary" ELSE "sql_secondary"]
    /\ UNCHANGED <<op, all_data, query, session, data, q2, batch, main, exc, submitted, n, text, n2,
                   wrote, artifact, Local, Historico>>

\* result_df.to_csv(f'Local/{planta[1]}.csv', ...), still inside the try:
\* planta[1] of an entry without label raises into the handler.
csv_primary(i) ==
    /\ pc[i] = "csv_primary"
    /\ IF Len(all_data[i]) >= 2
       THEN /\ Local' = [Local EXCEPT ![LocalPath(all_data[i][2])] =
                            File(all_data[i][1], batch, <<"result", "primary">>)]
            /\ wrote' = [wrote EXCEPT ![i] = @ \cup {LocalPath(all_data[i][2])}]
            /\ pc' = [pc EXCEPT ![i] = "done"]
       ELSE /\ pc' = [pc EXCEPT ![i] = "sql_secondary"]
            /\ UNCHANGED <<Local, wrote>>
    /\ UNCHANGED <<op, all_data, query, sql, session, data, q2, batch, main, exc, submitted, n, text, q1, n2,
                   artifact, Historico>>

\* Mutant of sql_secondary: a failure of the secondary query is swallowed.
sql_secondary_swallow(i) ==
    /\ pc[i] = "sql_secondary"
    /\ sql' = [sql EXCEPT ![i] = Append(@, "secondary: " \o query)]
    /\ n2' = [n2 EXCEPT ![i] = @ + 1]
    /\ \E r \in {"ok", "fail"} :
         /\ q2' = [q2 EXCEPT ![i] = r]
         /\ pc' = [pc EXCEPT ![i] = IF r = "ok" THEN "csv_secondary" ELSE "done"]
    /\ UNCHANGED <<op, all_data, query, session, data, batch, main, exc, submitted, n, text, q1,
                   wrote, artifact, Local, Historico>>

\* except Exception as e: print(e); result_df_win = pd.read_sql(query, con=engine_win)
sql_secondary(i) ==
    /\ pc[i] = "sql_secondary"
    /\ sql' = [sql EXCEPT ![i] = Append(@, "secondary: " \o query)]
    /\ n2' = [n2 EXCEPT ![i] = @ + 1]
    /\ \E r \in {"ok", "fail"} :
         /\ q2' = [q2 EXCEPT ![i] = r]
         /\ pc' = [pc EXCEPT ![i] = IF r = "ok" THEN "csv_secondary" ELSE "raised"]
    /\ UNCHANGED <<op, all_data, query, session, data, batch, main, exc, submitted, n, text, q1,
                   wrote, artifact, Local, Historico>>

\* result_df_win.to_csv(f'Local/{planta[1]}.csv', ...), in the handler.
csv_secondary(i) ==
    /\ pc[i] = "csv_secondary"
    /\ IF Len(all_data[i]) >= 2
       THEN /\ Local' = [Local EXCEPT ![LocalPath(all_data[i][2])] =
                            File(all_data[i][1], batch, <<"result", "secondary">>)]
            /\ wrote' = [wrote EXCEPT ![i] = @ \cup {LocalPath(all_data[i][2])}]
            /\ pc' = [pc EXCEPT ![i] = "done"]
       ELSE /\ pc' = [pc EXCEPT ![i] = "raised"]
            /\ UNCHANGED <<Local, wrote>>
    /\ UNCHANGED <<op, all_data, query, sql, session, data, q2, batch, main, exc, submitted, n, text, q1, n2,
                   artifact, Historico>>

\* ---- _get_query_rds

\* Mutant of rds_sql: the query runs outside the try block.
rds_sql_unhandled(i) ==
    /\ pc[i] = "rds_sql"
    /\ sql' = [sql EXCEPT ![i] = Append(@, Statement(all_data[i], query))]
    /\ \E r \in {"ok", "fail"} :
         pc' = [pc EXCEPT ![i] = IF r = "ok" THEN "rds_csv" ELSE "raised"]
    /\ UNCHANGED <<op, all_data, query, session, data, q2, batch, main, exc, submitted, n, text,
                   q1, n2, wrote, artifact, Local, Historico>>

\* schema = f"SET search_path TO {planta};"; pd.read_sql(schema+query, con=engine)
rds_sql(i) ==
    /\ pc[i] = "rds_sql"
    /\ sql' = [sql EXCEPT ![i] = Append(@, Statement(all_data[i], query))]
    /\ \E r \in {"ok", "fail"} :
         IF r = "ok"
         THEN pc' = [pc EXCEPT ![i] = "rds_csv"] /\ UNCHANGED text
         ELSE /\ pc' = [pc EXCEPT ![i] = "rds_error_csv"]
              /\ text' = [text EXCEPT ![i] = <<"ERROR", "query failed">>]
    /\ UNCHANGED <<op, all_data, query, session, data, q2, batch, main, exc, submitted, n, q1, n2,
                   wrote, artifact, Local, Historico>>

\* result_df.to_csv(f'Historico/{planta}.csv', ...)
rds_csv(i) ==
    /\ pc[i] = "rds_csv"
    /\ Historico' = [Historico EXCEPT ![ResultPath(all_data[i])] =
                        File(all_data[i], batch, <<"result", "rows">>)]
    /\ wrote' = [wrote EXCEPT ![i] = @ \cup {ResultPath(all_data[i])}]
    /\ pc' = [pc EXCEPT ![i] = "done"]
    /\ UNCHANGED <<op, all_data, query, sql, session, data, q2, batch, main, exc, submitted, n, text, q1, n2,
                   artifact, Local>>

\* except Exception as e: the one-row table ('ERROR', e) goes to
\* Historico/error_<planta>.csv
rds_error_csv(i) ==
    /\ pc[i] = "rds_error_csv"
    /\ Historico' = [Historico EXCEPT ![ErrorPath(all_data[i])] =
                        File(all_data[i], batch, text[i])]
    /\ wrote' = [wrote EXCEPT ![i] = @ \cup {ErrorPath(all_data[i])}]
    /\ pc' = [pc EXCEPT ![i] = "done"]
    /\ UNCHANGED <<op, all_data, query, sql, session, data, q2, batch, main, exc, submitted, n, text, q1, n2,
                   artifact, Local>>

Next ==
    \/ version_check
    \/ query_local
    \/ query_rds
    \/ map_submit
    \/ result_next
    \/ result_raise
    \/ executor_exit
    \/ \E i \in Targets : worker_start(i)
    \/ \E i \in Targets : prepare_session_get(i)
    \/ \E i \in Targets : prepare_session_post(i)
    \/ \E i \in Targets : get_version_fetch(i)
    \/ \E i \in Targets : write_data_open(i)
    \/ \E i \in Targets : write_data_row(i)
    \/ \E i \in Targets : sql_primary(i)
    \/ \E i \in Targets : csv_primary(i)
    \/ \E i \in Targets : sql_secondary(i)
    \/ \E i \in Targets : csv_secondary(i)
    \/ \E i \in Targets : rds_sql(i)
    \/ \E i \in Targets : rds_csv(i)
    \/ \E i \in Targets : rds_error_csv(i)

Spec == Init /\ [][Next]_vars

\* =================================================================== claims

\* The outcome rows of the day's artifact (every row but the header) that
\* carry the ip of target i.
RowsOf(i) ==
    {k \in 1..Len(artifact) :
        artifact[k].row # header /\ artifact[k].row[3] = all_data[i][1]}

OutcomeRows == {k \in 1..Len(artifact) : artifact[k].row # header}

\* Number of outcomes target i has recorded in the running batch.
Outcomes(i) ==
    IF op = "version_check" THEN Cardinality(RowsOf(i)) ELSE Cardinality(wrote[i])

Ended == main \in {"returned", "raised"}

\* C1: when version_check returns, the artifact holds as many outcome rows as
\* the roster has targets, and every target has exactly one row.
C1_OneRowPerTarget ==
    (op = "version_check" /\ main = "returned") =>
        /\ Cardinality(OutcomeRows) = Len(all_data)
        /\ \A i \in Targets : Cardinality(RowsOf(i)) = 1

\* C1 witness: a batch of several targets has returned, with a failed and a
\* successful target among them.
C1_Witness ==
    /\ op = "version_check" /\ main = "returned" /\ Len(all_data) >= 2
    /\ \E k \in OutcomeRows : artifact[k].row[1] = "ERROR"
    /\ \E k \in OutcomeRows : artifact[k].row[1] # "ERROR"

\* C2 (as claimed): for every target, labelled or not, whose _prepare_session
\* raised: _get_version does not raise, once it is done exactly one row,
\* the Failure row of the target, is in the artifact, and when the batch has
\* ended every other target has its row.
C2_OpenFailureRecorded ==
    op = "version_check" =>
        \A i \in Targets : session[i] = "raised" =>
            /\ pc[i] # "raised"
            /\ pc[i] = "done" =>
                 /\ Cardinality(RowsOf(i)) = 1
                 /\ \A k \in RowsOf(i) : artifact[k].row[1] = "ERROR"
            /\ Ended => \A j \in Targets \ {i} : Cardinality(RowsOf(j)) = 1

\* C3 (as claimed): in a local-SQL batch no error leaves a work item, none
\* leaves query_local, and no target of the roster is left unprocessed.
C3_LocalErrorsCaught ==
    op = "query_local" =>
        /\ \A i \in Targets : pc[i] \notin {"raised", "cancelled"}
        /\ ~exc
        /\ main # "raised"

\* C4 (as claimed): a batch ends only by returning, and when it has ended
\* every target has produced exactly one outcome.
C4_EndsWithAllOutcomes ==
    /\ main # "raised"
    /\ main = "returned" => \A i \in Targets : pc[i] = "done" /\ Outcomes(i) = 1

\* C5: at most max_workers target operations are at once between the start
\* of their first remote step and the recording of their outcome, however
\* long the roster.
C5_PoolBound == Cardinality({i \in Targets : Running(i)}) <= max_workers

\* C5 witness: a roster larger than the pool, the pool full, a target waiting.
C5_Witness ==
    /\ Len(all_data) > max_workers
    /\ Cardinality({i \in Targets : Running(i)}) = max_workers
    /\ \E i \in Targets : pc[i] = "pending"

\* The file of target i under Local/ (the entry has a label).
LocalFileOf(i) == Local[LocalPath(all_data[i][2])]

\* C6 (as claimed): never more than one query under the secondary
\* credentials; a target whose primary query failed and whose operation is
\* done made exactly one, and its file holds the secondary result; a target
\* whose primary query succeeded made none.
C6_OneFallback ==
    op = "query_local" =>
        \A i \in Targets :
            /\ n2[i] <= 1
            /\ (q1[i] = "fail" /\ pc[i] = "done") =>
                 /\ n2[i] = 1
                 /\ wrote[i] = {LocalPath(all_data[i][2])}
                 /\ LocalFileOf(i).of = all_data[i][1] =>
                        LocalFileOf(i).data = <<"result", "secondary">>
            /\ q1[i] = "ok" => n2[i] = 0

\* C7 (as claimed): a query under the secondary credentials is made only for
\* a target whose query under the primary credentials failed.
C7_FallbackOnlyAfterQueryFailure ==
    op = "query_local" =>
        \A i \in Targets : n2[i] > 0 => q1[i] = "fail"

\* C8 (as claimed): at most one worker is inside _write_data (the file open,
\* the row not yet written) at any time.
C8_AppendsSerialized ==
    Cardinality({i \in Targets : pc[i] = "write_row"}) <= 1

\* C9: when a second (or later) run of version_check has returned, the
\* artifact is one header followed by exactly one row per target, all of
\* them written by that run.
C9_SecondRunOverwrites ==
    (op = "version_check" /\ batch >= 2 /\ main = "returned") =>
        /\ Len(artifact) = Len(all_data) + 1
        /\ artifact[1].row = header
        /\ \A k \in 2..Len(artifact) : artifact[k].row # header
        /\ \A k \in 1..Len(artifact) : artifact[k].run = batch

\* C9 witness: the second run over a roster of several targets has returned.
C9_Witness ==
    /\ op = "version_check" /\ batch = 2 /\ main = "returned"
    /\ Len(all_data) >= 2

\* C10: _get_query_rds never raises; a target whose query failed wrote
\* Historico/error_<target>.csv (the marker "ERROR" and the error's text)
\* and nothing else, a target whose query succeeded wrote
\* Historico/<target>.csv and nothing else.
C10_RdsErrorArtifact ==
    op = "query_rds" =>
        \A i \in Targets :
            /\ pc[i] # "raised"
            /\ Cardinality(wrote[i]) <= 1
            /\ pc[i] = "done" =>
                 IF text[i] # NoText
                 THEN /\ wrote[i] = {ErrorPath(all_data[i])}
                      /\ text[i][1] = "ERROR"
                      /\ Historico[ErrorPath(all_data[i])].of = all_data[i] =>
                           Historico[ErrorPath(all_data[i])].data = text[i]
                 ELSE wrote[i] = {ResultPath(all_data[i])}

\* C10 witness: a batch has returned in which one target failed and another
\* succeeded.
C10_Witness ==
    /\ op = "query_rds" /\ main = "returned"
    /\ \E i \in Targets : text[i] # NoText /\ wrote[i] = {ErrorPath(all_data[i])}
    /\ \E i \in Targets : text[i] = NoText /\ wrote[i] = {ResultPath(all_data[i])}

\* C11 (as claimed): the statement a remote-SQL work item executes is
\* "SET search_path TO " + target + "; " + query, with a blank after the
\* semicolon.
C11_AsClaimed ==
    op = "query_rds" =>
        \A i \in Targets : sql[i] # <<>> =>
            sql[i][1] = "SET search_path TO " \o all_data[i] \o "; " \o query

\* C11 (amended): a remote-SQL work item executes one statement, the prefix
\* "SET search_path TO " + target + ";" immediately followed by the query
\* text (for "siteA" and "SELECT 1": "SET search_path TO siteA;SELECT 1"),
\* and when the statement succeeded its result is what the work item wrote,
\* to Historico/<target>.csv.
C11_StatementSent ==
    op = "query_rds" =>
        \A i \in Targets :
            /\ Len(sql[i]) <= 1
            /\ pc[i] \in {"rds_csv", "rds_error_csv", "done"} => Len(sql[i]) = 1
            /\ sql[i] # <<>> =>
                 /\ sql[i][1] = "SET search_path TO " \o all_data[i] \o ";" \o query
                 /\ (all_data[i] = "siteA" /\ query = "SELECT 1") =>
                        sql[i][1] = "SET search_path TO siteA;SELECT 1"
            /\ (pc[i] = "done" /\ text[i] = NoText) =>
                 /\ wrote[i] = {ResultPath(all_data[i])}
                 /\ Historico[ResultPath(all_data[i])].of = all_data[i] =>
                        Historico[ResultPath(all_data[i])].data = <<"result", "rows">>

\* C11 witness: the work item of "siteA" has run "SELECT 1" with success and
\* written Historico/siteA.csv.
C11_Witness ==
    /\ op = "query_rds" /\ query = "SELECT 1"
    /\ \E i \in Targets :
         /\ all_data[i] = "siteA" /\ pc[i] = "done" /\ text[i] = NoText
         /\ sql[i] = <<"SET search_path TO siteA;SELECT 1">>
         /\ Historico["Historico/siteA.csv"].of = "siteA"

\* The targets whose operation has completed (returned) in the running batch.
Completed == {i \in Targets : pc[i] = "done"}

\* C12: in every batch the progress bar's total is the roster length; its
\* completed-count n only counts targets whose operation has completed (the
\* first n of the roster, each once), never exceeds the total, is the roster
\* length when the batch returns, and from one step to the next of a batch
\* it stays or grows by one.
C12_Progress ==
    /\ [](/\ total = Len(all_data)
          /\ n <= total
          /\ \A i \in 1..n : i \in Completed
          /\ n <= Cardinality(Completed)
          /\ main = "returned" => n = total)
    /\ [][batch' = batch => (n' = n \/ n' = n + 1)]_vars

\* C12 witness: the count is behind the completions: a later target has
\* completed while the bar waits for an earlier one.
C12_Witness ==
    /\ main = "results" /\ n >= 1 /\ n < total
    /\ pc[n + 1] # "done"
    /\ \E i \in Targets : i > n + 1 /\ pc[i] = "done"

\* The files present under Local/.
LocalFiles == {p \in LocalPaths : Local[p] # NoFile}

\* C13 (as claimed): when a local-SQL batch has returned (every target's
\* query succeeded under one of the two credentials; the ids of a roster are
\* unique), Local/ holds as many files as the roster has targets and the
\* file of each target holds that target's own result.
C13_OneFilePerTarget ==
    (op = "query_local" /\ main = "returned"
        /\ \A i \in Targets : q1[i] = "ok" \/ q2[i] = "ok") =>
        /\ Cardinality(LocalFiles) = Len(all_data)
        /\ \A i \in Targets : LocalFileOf(i).of = all_data[i][1]

\* C14 (as claimed): a work item of version_check that fetched a page of the
\* known shape records the row (version[38:-5], planta[11:-5], ip), which for
\* the known page is ("2.4.1", "PLANTA", ip); one that fetched a page
\* lacking the marker <b> elements does not raise and records the row whose
\* first field is "ERROR".
C14_Extraction ==
    op = "version_check" =>
        \A i \in Targets :
            /\ Len(data[i]) >= 3 =>
                 /\ pc[i] \in {"write_open", "write_row"}
                 /\ text[i] = <<Slice(data[i][3], 38, 5), Slice(data[i][2], 11, 5),
                                all_data[i][1]>>
                 /\ data[i] = KnownPage => text[i] = <<"2.4.1", "PLANTA", all_data[i][1]>>
            /\ Len(data[i]) \in {1, 2} =>
                 /\ pc[i] \in {"write_open", "write_row"}
                 /\ text[i] # NoText
                 /\ text[i][1] = "ERROR"

\* C15: a work item of query_local whose query failed under the primary and
\* under the secondary credentials has raised (the second error leaves
\* _get_query_local), has written no file under Local/, and has sent two
\* statements, one per credentials, and no third.
C15_BothFail ==
    op = "query_local" =>
        \A i \in Targets : (q1[i] = "fail" /\ q2[i] = "fail") =>
            /\ pc[i] = "raised"
            /\ wrote[i] = {}
            /\ n2[i] = 1
            /\ sql[i] = <<"primary: " \o query, "secondary: " \o query>>

\* C15 witness: a target failed under both credentials, and the error has
\* left query_local.
C15_Witness ==
    /\ op = "query_local" /\ main = "raised"
    /\ \E i \in Targets : q1[i] = "fail" /\ q2[i] = "fail" /\ pc[i] = "raised"

\* A row of target i is in the artifact.
HasRow(i) == RowsOf(i) # {}

\* C16: in a work item of version_check the login POST is reached only from
\* the CSRF GET that returned, the diagnostics call only from the login POST
\* that returned, and _write_data only after the diagnostics call or a
\* failed step has set the row; the row enters the artifact in one step,
\* whole, the step that ends the work item, so a target that has not finished
\* has no row.
C16_Sequential ==
    /\ [](op = "version_check" =>
            \A i \in Targets :
                /\ pc[i] = "diag_get" => session[i] = "open"
                /\ pc[i] \in {"write_open", "write_row"} => text[i] # NoText
                /\ HasRow(i) <=> pc[i] = "done"
                /\ \A k \in RowsOf(i) : artifact[k].row = text[i] /\ Len(text[i]) = 3)
    /\ [][op = "version_check" =>
            \A i \in Targets :
                /\ (pc'[i] = "login_post" /\ pc[i] # "login_post") => pc[i] = "csrf_get"
                /\ (pc'[i] = "diag_get" /\ pc[i] # "diag_get") => pc[i] = "login_post"
                /\ (pc'[i] = "write_open" /\ pc[i] # "write_open") =>
                       pc[i] \in {"csrf_get", "login_post", "diag_get"}
                /\ (pc'[i] = "write_row" /\ pc[i] # "write_row") => pc[i] = "write_open"
                /\ (pc'[i] = "done" /\ pc[i] # "done") => pc[i] = "write_row"]_vars

\* C16 witness: a target went through the three remote steps and its row is
\* in the artifact, while another target's call has not finished.
C16_Witness ==
    /\ op = "version_check"
    /\ \E i, j \in Targets :
         /\ pc[i] = "done" /\ session[i] = "open" /\ HasRow(i)
         /\ text[i][1] # "ERROR"
         /\ pc[j] = "diag_get" /\ ~HasRow(j)

\* C17: once version_check has been called, the artifact starts with the
\* header written by the running batch and holds no other header; every
\* other row was appended by the running batch, one per target that is done
\* (none has been erased); and the artifact changes only by the truncation
\* that starts a batch, when no work item has been submitted, or by the
\* append of one row after the rows already there.
C17_HeaderOnceFirst ==
    /\ []((op = "version_check" /\ batch >= 1) =>
            /\ artifact # <<>>
            /\ artifact[1] = [row |-> header, run |-> batch]
            /\ \A k \in 2..Len(artifact) :
                   artifact[k].row # header /\ artifact[k].run = batch
            /\ Cardinality(OutcomeRows) = Cardinality(Completed)
            /\ \A i \in Completed : HasRow(i))
    /\ [][(op = "version_check" /\ artifact' # artifact) =>
            \/ /\ batch' = batch + 1
               /\ artifact' = <<[row |-> header, run |-> batch']>>
               /\ \A i \in Targets : pc'[i] = "unsubmitted"
            \/ /\ batch' = batch
               /\ Len(artifact') = Len(artifact) + 1
               /\ SubSeq(artifact', 1, Len(artifact)) = artifact]_vars

\* C17 witness: in a second batch a row has been appended after the header
\* while other work items are still running.
C17_Witness ==
    /\ op = "version_check" /\ batch = 2
    /\ Len(artifact) >= 2 /\ artifact[1].row = header
    /\ \E i \in Targets : Running(i)

\* C18 (as claimed): between two batches of query_rds, for every target of
\* the roster Historico/ holds either <target>.csv or error_<target>.csv
\* written for that target, never both, and the one present was written by
\* the most recent batch.
C18_ResultXorError ==
    (op = "query_rds" /\ main = "returned") =>
        \A i \in Targets :
            LET res == Historico[ResultPath(all_data[i])]
                err == Historico[ErrorPath(all_data[i])]
            IN  /\ ~(res.of = all_data[i] /\ err.of = all_data[i])
                /\ res.of = all_data[i] => res.run = batch
                /\ err.of = all_data[i] => err.run = batch

\* C19 (as claimed): in a batch of query_rds (the schema names of a roster
\* are pairwise distinct) no two work items write the same path under
\* Historico/.
C19_DistinctPaths ==
    op = "query_rds" =>
        \A i, j \in Targets : i # j => wrote[i] \cap wrote[j] = {}

====
